---- MODULE Spec2Model ----
(***************************************************************************)
(* A model of the word2vec toy model of lamvi (src/toy_model_w2v.ts): the  *)
(* vocabulary builder, the sentence-by-sentence trainer with its three     *)
(* breakpoints, and the query ranker with its rank-history ledger.         *)
(*                                                                         *)
(* Words are the naturals 1, 2, ... and stand for strings that are not     *)
(* numerals; the null word '\0' is 0, and ProtoWord stands for a string    *)
(* that names a property every object inherits ("constructor").  A         *)
(* query-in term is a non-zero integer: w stands for "w" and -w for "-w".  *)
(* A query-out item is a record [prefix, word] for the string              *)
(* prefix + "_" + word.  The configuration is the one the constructor was  *)
(* given; hidden_size is 1 throughout, so a row of syn0 or syn1 is one     *)
(* number.  Weights are whole numbers of one unit of weight; the gradient  *)
(* factor g keeps its sign and has magnitude one unit.                     *)
(*                                                                         *)
(* A request that throws leaves the state as it was at the throw; outcome  *)
(* tells how the last request ended.  A session is set_corpus, init_model  *)
(* and then query, train and init_model requests in any order.             *)
(***************************************************************************)
EXTENDS Integers, Sequences, FiniteSets, TLC

\* ------------------------------------------------------------- bounds
MaxSmallWords == 3      \* words of the small corpora: 1..MaxSmallWords
MaxSentLen    == 2      \* longest sentence of a small corpus
MaxSentences  == 2      \* most sentences of a small corpus
BigWords      == 10     \* distinct words of the large corpus
MaxMinCount   == 2      \* min_count is drawn from 1..MaxMinCount
MaxWindow     == 1      \* window is drawn from 1..MaxWindow
MaxNegative   == 1      \* negative is drawn from 1..MaxNegative
MaxSeed       == 1      \* seeds of the weight initializer: 1..MaxSeed
RandDen       == 2      \* get_random_float() returns k / RandDen, k < RandDen
PowScale      == 10     \* Math.pow(count, power) is held in 1/PowScale units
MaxInstances  == 3      \* no 'train' request once instances reach this
MaxTrained    == 2      \* the clock fires once this many sentences were trained
MaxRequests   == 4      \* requests of a session after its first init_model
MaxIter       == 1      \* config.iter is drawn from 1..MaxIter
MaxIterations == 1      \* request['iterations'] is drawn from 0..MaxIterations
MaxSearchLen  == 3      \* longest array handed to bSearch on its own
MaxSearchValue == 2     \* its elements are drawn from 0..MaxSearchValue

\* -------------------------------------------------- program constants
NullWord == 0
ProtoWord == 99         \* a word that names a property every object inherits
cum_table_domain == 2147483647
TopRanks == 10
EmptyWord == 98         \* the empty string, the one token of an empty line

\* ---------------------------------------------------- generic helpers
Range(s) == {s[i] : i \in 1..Len(s)}

Max(a, b) == IF a > b THEN a ELSE b

Min(a, b) == IF a < b THEN a ELSE b

Abs(a) == IF a < 0 THEN -a ELSE a

RECURSIVE SumOver(_, _)
SumOver(f, S) ==
  IF S = {} THEN 0
  ELSE LET x == CHOOSE y \in S : TRUE IN f[x] + SumOver(f, S \ {x})

\* Array.prototype.sort with a comparator (a, b) => key[a] - key[b]: the
\* elements in ascending order of key, equal keys in their original order
\* (the sort is stable, ECMAScript 2019).
RECURSIVE InsertByKey(_, _, _)
InsertByKey(x, s, key) ==
  IF s = <<>> THEN <<x>>
  ELSE IF key[x] < key[Head(s)] THEN <<x>> \o s
  ELSE <<Head(s)>> \o InsertByKey(x, Tail(s), key)

RECURSIVE SortByKey(_, _)
SortByKey(s, key) ==
  IF s = <<>> THEN <<>>
  ELSE InsertByKey(s[Len(s)], SortByKey(SubSeq(s, 1, Len(s) - 1), key), key)

\* ------------------------------------------------------- build_vocab
\* this.corpus.split('\n') and sentence.split(' '): a corpus is held as the
\* sequence of its sentences, a sentence as the sequence of its words (never
\* empty: split yields at least one string).
RECURSIVE Flatten(_)
Flatten(ss) == IF ss = <<>> THEN <<>> ELSE Head(ss) \o Flatten(Tail(ss))

\* "word in this.vocab": this.vocab is an object literal, so besides its own
\* keys the operator finds the properties inherited from Object.prototype
\* ("constructor", "toString", ...), for which ProtoWord stands.
HasKey(vocab, word) == word \in DOMAIN vocab \/ word = ProtoWord

\* The counting loop: a new word takes the next index, every occurrence adds
\* one to its count.  For an inherited key no item is made, and "count += 1"
\* lands on the inherited object, not in this.vocab.
RECURSIVE CountWords(_, _, _)
CountWords(words, vocab, index2word) ==
  IF words = <<>> THEN [vocab |-> vocab, index2word |-> index2word]
  ELSE IF ~HasKey(vocab, Head(words))
  THEN CountWords(Tail(words),
                  vocab @@ (Head(words) :> [idx |-> Len(index2word), count |-> 1]),
                  Append(index2word, Head(words)))
  ELSE IF Head(words) \in DOMAIN vocab
  THEN CountWords(Tail(words), [vocab EXCEPT ![Head(words)].count = @ + 1], index2word)
  ELSE CountWords(Tail(words), vocab, index2word)

\* The test that keeps a word when rare words are discarded.
KeepWord(count, min_count) == count >= min_count

\* "Discard rare words": only when min_count > 1.
DiscardRare(counted, min_count) ==
  IF min_count > 1
  THEN LET kept == SelectSeq(counted.index2word,
                     LAMBDA w : KeepWord(counted.vocab[w].count, min_count))
       IN [vocab |-> [w \in Range(kept) |->
                        [idx |-> (CHOOSE i \in 1..Len(kept) : kept[i] = w) - 1,
                         count |-> counted.vocab[w].count]],
           index2word |-> kept]
  ELSE counted

\* "Sort words by count", then the null word goes to the front and every
\* other word takes its position as index.
SortWords(pruned) ==
  LET sorted == SortByKey(pruned.index2word,
                          [w \in Range(pruned.index2word) |-> -pruned.vocab[w].count])
      index2word == <<NullWord>> \o sorted
      v0 == [w \in (DOMAIN pruned.vocab) \cup {NullWord} |->
               IF w = NullWord THEN [idx |-> 0, count |-> 1] ELSE pruned.vocab[w]]
  IN [vocab |-> [w \in DOMAIN v0 |->
                   LET at == {i \in 2..Len(index2word) : index2word[i] = w}
                   IN IF at = {} THEN v0[w]
                      ELSE [v0[w] EXCEPT !.idx = (CHOOSE i \in at : \A j \in at : j <= i) - 1]],
      index2word |-> index2word]

\* total "trainable" words in corpus: the sum over every key of this.vocab.
TotalWords(vocab) == SumOver([w \in DOMAIN vocab |-> vocab[w].count], DOMAIN vocab)

\* Math.pow(count, power) with power = 0.75, in 1/PowScale units: the largest
\* r with (r / PowScale)^4 <= count^3.
Pow75(count) ==
  CHOOSE r \in 0..(PowScale * count) :
    /\ r * r * r * r <= count * count * count * PowScale * PowScale * PowScale * PowScale
    /\ (r + 1) * (r + 1) * (r + 1) * (r + 1)
         > count * count * count * PowScale * PowScale * PowScale * PowScale

\* Math.round(num / den * cum_table_domain) for 0 <= num <= den, without
\* leaving 32 bits: domain = q * den + r.
RoundScaled(num, den) ==
  LET q == cum_table_domain \div den
      r == cum_table_domain % den
  IN num * q + ((2 * num * r + den) \div (2 * den))

\* A table of the words' own shares, not summed up.
ShareTable(vocab, index2word) ==
  LET n == Len(index2word)
      pw == [i \in 1..n |-> Pow75(vocab[index2word[i]].count)]
      train_words_pow == SumOver(pw, 1..n)
  IN [i \in 1..n |-> RoundScaled(pw[i], train_words_pow)]

\* The cumulative distribution table for negative sampling.
CumTable(vocab, index2word) ==
  LET n == Len(index2word)
      pw == [i \in 1..n |-> Pow75(vocab[index2word[i]].count)]
      train_words_pow == SumOver(pw, 1..n)
  IN [i \in 1..n |-> RoundScaled(SumOver(pw, 1..i), train_words_pow)]

BuildVocab(c, min_count) ==
  LET counted == CountWords(Flatten(c), <<>>, <<>>)
      built == SortWords(DiscardRare(counted, min_count))
  IN [sentences |-> c,
      vocab |-> built.vocab,
      index2word |-> built.index2word,
      cum_table |-> CumTable(built.vocab, built.index2word),
      num_sentences |-> Len(c),
      vocab_size |-> Len(built.index2word),
      corpus_size |-> TotalWords(built.vocab)]

\* -------------------------------------------------------- init_model
\* get_random_init_weight(hidden_size) of random.ts: the n-th weight drawn
\* after seeding, one unit either way (a linear congruential sequence).
RECURSIVE RandomState(_, _)
RandomState(seed, n) ==
  IF n = 0 THEN seed % 16 ELSE (5 * RandomState(seed, n - 1) + 3) % 16

get_random_init_weight(seed, n) == IF RandomState(seed, n + 1) < 8 THEN -1 ELSE 1

\* Row i of syn0 takes draw 2i and row i of syn1 draw 2i + 1 (hidden_size = 1).
InitSyn0(seed, vocab_size) ==
  [i \in 0..(vocab_size - 1) |-> get_random_init_weight(seed, 2 * i)]

InitSyn1(seed, vocab_size) ==
  [i \in 0..(vocab_size - 1) |-> get_random_init_weight(seed, 2 * i + 1)]

\* ----------------------------------------------------------- bSearch
\* A search key x = k / RandDen * cum_table_domain is held as its integer part
\* and whether a fraction is left over.
ScaledRandom(k) ==
  [int |-> k * (cum_table_domain \div RandDen) + (k * (cum_table_domain % RandDen)) \div RandDen,
   frac |-> (k * (cum_table_domain % RandDen)) % RandDen # 0]

\* The sign of xs[mid] - x.
Compare(a, x) ==
  IF a < x.int THEN -1
  ELSE IF a > x.int THEN 1
  ELSE IF x.frac THEN -1 ELSE 0

RECURSIVE bSearchLoop(_, _, _, _)
bSearchLoop(xs, x, bot, top) ==
  IF ~(bot < top) THEN bot
  ELSE LET mid == (bot + top) \div 2
           c == Compare(xs[mid + 1], x)
       IN IF c = 0 THEN mid
          ELSE IF c < 0 THEN bSearchLoop(xs, x, mid + 1, top)
          ELSE bSearchLoop(xs, x, bot, mid)

\* xs is the 1-based sequence of the 0-based array; the result is 0-based.
bSearch(xs, x) ==
  IF Len(xs) = 0 THEN 0
  ELSE IF Compare(xs[Len(xs)], x) < 0 THEN Len(xs)
  ELSE IF Compare(xs[1], x) > 0 THEN 0
  ELSE bSearchLoop(xs, x, 0, Len(xs))

\* ------------------------------------------------- negative sampling
\* The target of a draw that is not a number (x % 0).
NaNTarget == -1

\* "if (target == 0) target = Math.floor(random * domain) % (vocab_size - 1) + 1"
Redraw(k, vocab_size) ==
  IF vocab_size = 1 THEN NaNTarget
  ELSE (ScaledRandom(k).int % (vocab_size - 1)) + 1

\* Every target one negative draw can produce.
DrawTargets(cum_table, vocab_size) ==
  UNION { LET target == bSearch(cum_table, ScaledRandom(k))
          IN IF target = 0 THEN {Redraw(k2, vocab_size) : k2 \in 0..(RandDen - 1)}
             ELSE {target}
        : k \in 0..(RandDen - 1) }

\* A sampler that skips no draw.
NeverSkip(target, w_idx) == FALSE

\* A negative draw that hits the true target is skipped.
SkipDraw(target, w_idx) == target = w_idx

\* g = (label - 1 / (1 + Math.exp(-f))) * learning_rate, in units: positive
\* for the true pair, negative for a negative sample.
Gradient(label, f) == IF label = 1 THEN 1 ELSE -1

\* One accepted draw of the loop over d; st = [syn1, neu1e, crashed].  Reading
\* a row that does not exist throws (TypeError).
ApplyDraw(st, l1, target, label) ==
  IF target \notin DOMAIN st.syn1 THEN [st EXCEPT !.crashed = TRUE]
  ELSE LET l2 == st.syn1[target]
           g == Gradient(label, l1 * l2)
       IN [st EXCEPT !.neu1e = @ + g * l2, !.syn1[target] = @ + g * l1]

\* The loop "for (let d = 0; d < config.negative + 1; d++)" from d on: the set
\* of states it can end in.
RECURSIVE PairDraws(_, _, _, _, _, _)
PairDraws(d, negative, w_idx, l1, st, targets) ==
  IF d > negative \/ st.crashed THEN {st}
  ELSE IF d = 0
  THEN PairDraws(1, negative, w_idx, l1, ApplyDraw(st, l1, w_idx, 1), targets)
  ELSE UNION { PairDraws(d + 1, negative, w_idx, l1,
                         IF SkipDraw(t, w_idx) THEN st ELSE ApplyDraw(st, l1, t, 0),
                         targets)
             : t \in targets }

\* train_sg_pair on e = [syn0, syn1, crashed].
train_sg_pair(e, w_idx, context_idx, negative, targets) ==
  { [syn0 |-> IF st.crashed THEN e.syn0
              ELSE [e.syn0 EXCEPT ![context_idx] = @ + st.neu1e],
     syn1 |-> st.syn1,
     crashed |-> st.crashed]
  : st \in PairDraws(0, negative, w_idx, e.syn0[context_idx],
                     [syn1 |-> e.syn1, neu1e |-> 0, crashed |-> FALSE], targets) }

\* "for (let a of context_idxs) ... syn0[a][j] += neu1e[j]"
RECURSIVE AddToRows(_, _, _)
AddToRows(syn0, rows, neu1e) ==
  IF rows = <<>> THEN syn0
  ELSE AddToRows([syn0 EXCEPT ![Head(rows)] = @ + neu1e], Tail(rows), neu1e)

\* train_cbow_pair on e = [syn0, syn1, crashed].
train_cbow_pair(e, w_idx, context_idxs, l1, negative, targets) ==
  { [syn0 |-> IF st.crashed THEN e.syn0 ELSE AddToRows(e.syn0, context_idxs, st.neu1e),
     syn1 |-> st.syn1,
     crashed |-> st.crashed]
  : st \in PairDraws(0, negative, w_idx, l1,
                     [syn1 |-> e.syn1, neu1e |-> 0, crashed |-> FALSE], targets) }

\* ----------------------------------------------------- train_sentence
\* state.learning_rate before the first sentence is trained (not a number).
NoRate == [num |-> 0, den |-> 0]

\* Math.min(1, instances / (corpus_size * iter)) as the fraction
\* Progress / (corpus_size * iter), for corpus_size * iter > 0.
Progress(inst, total) == Min(total, inst)

\* A rate that goes on falling past min_alpha.
LearningRateUnclamped(inst, csize, cfg) ==
  [num |-> cfg.alpha * (csize * cfg.iter) - (cfg.alpha - cfg.min_alpha) * inst,
   den |-> csize * cfg.iter]

\* "Update learning rate": alpha - (alpha - min_alpha) * progress.
LearningRate(inst, csize, cfg) ==
  [num |-> cfg.alpha * (csize * cfg.iter)
             - (cfg.alpha - cfg.min_alpha) * Progress(inst, csize * cfg.iter),
   den |-> csize * cfg.iter]

\* words.filter(w => (w in this.vocab))
FilterWords(sentence, vocab) == SelectSeq(sentence, LAMBDA w : HasKey(vocab, w))

\* Math.round(get_random_float() * config.window) for the float k / RandDen.
ReducedWindow(k, window) == (2 * k * window + RandDen) \div (2 * RandDen)

\* The positions of words_reduced_window, pos itself among them.
ContextWithSelf(len, pos, window, reduced_window) ==
  LET start == Max(0, pos - window + reduced_window)
      end == Min(len, pos + window + 1 - reduced_window)
  IN [i \in 1..Max(0, end - start) |-> start + i - 1]

\* The positions pos2 of words_reduced_window other than pos (all 0-based).
ContextPositions(len, pos, window, reduced_window) ==
  LET start == Max(0, pos - window + reduced_window)
      end == Min(len, pos + window + 1 - reduced_window)
  IN SelectSeq([i \in 1..Max(0, end - start) |-> start + i - 1], LAMBDA p : p # pos)

\* The skip-gram branch: one train_sg_pair per context position, in order.
RECURSIVE SgPairs(_, _, _, _, _, _, _)
SgPairs(es, words, vocab, pos, positions, negative, targets) ==
  IF positions = <<>> THEN es
  ELSE SgPairs(UNION { IF e.crashed THEN {e}
                       ELSE train_sg_pair(e, vocab[words[pos + 1]].idx,
                                          vocab[words[Head(positions) + 1]].idx,
                                          negative, targets)
                     : e \in es },
               words, vocab, pos, Tail(positions), negative, targets)

\* The row of syn0 that the CBOW branch takes for the context word at
\* sentence position pos2: "word2_indices.push(pos2)".
ContextRow(words, vocab, pos2) == pos2

\* l1[j] /= word2_indices.length, on whole units (towards zero).
MeanOf(sum, n) == IF sum < 0 THEN -((-sum) \div n) ELSE sum \div n

\* The CBOW branch.
CbowUpdate(e, words, vocab, pos, positions, cbow_mean, negative, targets) ==
  LET word2_indices == [i \in 1..Len(positions) |-> ContextRow(words, vocab, positions[i])]
  IN IF \E i \in 1..Len(word2_indices) : word2_indices[i] \notin DOMAIN e.syn0
     THEN {[e EXCEPT !.crashed = TRUE]}
     ELSE LET sum == SumOver([i \in 1..Len(word2_indices) |-> e.syn0[word2_indices[i]]],
                             1..Len(word2_indices))
              l1 == IF cbow_mean /\ Len(word2_indices) > 0
                    THEN MeanOf(sum, Len(word2_indices)) ELSE sum
          IN train_cbow_pair(e, vocab[words[pos + 1]].idx, word2_indices, l1,
                             negative, targets)

\* The body of words.forEach for the word at position pos: every [syn0, syn1,
\* crashed] it can leave.
TrainWordOutcomes(syn0v, syn1v, words, vocab, pos, cfg, targets) ==
  UNION { LET positions == ContextPositions(Len(words), pos, cfg.window,
                                            ReducedWindow(k, cfg.window))
              e == [syn0 |-> syn0v, syn1 |-> syn1v, crashed |-> FALSE]
          IN IF cfg.sg
             THEN SgPairs({e}, words, vocab, pos, positions, cfg.negative, targets)
             ELSE CbowUpdate(e, words, vocab, pos, positions, cfg.cbow_mean,
                             cfg.negative, targets)
        : k \in 0..(RandDen - 1) }

\* ---------------------------------------------- compute_query_result
\* A JavaScript number that may be NaN.
Num(v) == [nan |-> FALSE, v |-> v]

NaN == [nan |-> TRUE, v |-> 0]

Sign(a) == IF a > 0 THEN 1 ELSE IF a < 0 THEN -1 ELSE 0

\* The word of a query-in term and whether it starts with '-'.
TermWord(q) == Abs(q)

TermMinus(q) == q < 0

\* q_idx_set
QueryIndices(qin, vocab) == {vocab[TermWord(qin[i])].idx : i \in 1..Len(qin)}

\* "Update qi_vec": the signed sum of the query terms' rows of syn0.
RECURSIVE ComposeQuery(_, _, _)
ComposeQuery(qin, vocab, syn0v) ==
  IF qin = <<>> THEN 0
  ELSE LET row == syn0v[vocab[TermWord(qin[Len(qin)])].idx]
           rest == ComposeQuery(SubSeq(qin, 1, Len(qin) - 1), vocab, syn0v)
       IN IF TermMinus(qin[Len(qin)]) THEN rest - row ELSE rest + row

\* "Normalize qi_vec": qi_vec[j] /= Math.sqrt(l2); 0 / 0 is NaN.
Normalize(raw) == IF raw = 0 THEN NaN ELSE Num(Sign(raw))

\* "Compute scores": the score of vocabulary index i.
Score(i, q_idx_set, qi, syn0v) ==
  IF i \in q_idx_set THEN Num(0)
  ELSE IF syn0v[i] * syn0v[i] = 0 THEN Num(0)
  ELSE IF qi.nan THEN NaN
  ELSE Num(qi.v * Sign(syn0v[i]))

\* The comparator (a, b) => b.score - a.score as a sort key.  A comparison
\* that yields NaN counts as 0; NaN scores stand only beside scores of 0 (the
\* query vector is then NaN), so every comparison is then 0.
ScoreKey(score) == IF score.nan THEN 0 ELSE -score.v

\* item_scores left in the order of the vocabulary indices.
ItemScoresUnsorted(scoresv, vocab_size) == [i \in 1..vocab_size |-> i - 1]

\* item_scores after the sort: the vocabulary indices by descending score.
ItemScores(scoresv, vocab_size) ==
  SortByKey([i \in 1..vocab_size |-> i - 1],
            [i \in 0..(vocab_size - 1) |-> ScoreKey(scoresv[i])])

\* item_score.rank of vocabulary index idx.
RankOf(item_scores, idx) == (CHOOSE r \in 1..Len(item_scores) : item_scores[r] = idx) - 1

\* The elements of a set of integers in ascending order.
RECURSIVE SetToSeq(_)
SetToSeq(S) ==
  IF S = {} THEN <<>>
  ELSE LET x == CHOOSE y \in S : \A z \in S : y <= z IN <<x>> \o SetToSeq(S \ {x})

\* The ranks pushed for the watched words: those in the vocabulary that are
\* not query terms.
WatchedRanks(watched, vocab, item_scores, q_idx_set) ==
  LET ws == SetToSeq({w \in watched : w \in DOMAIN vocab /\ vocab[w].idx \notin q_idx_set})
  IN [i \in 1..Len(ws) |-> RankOf(item_scores, vocab[ws[i]].idx)]

\* The ranks that are always shown: "for (let i = 0; i < 10; i++)".
TopRanksSeq == [i \in 1..TopRanks |-> i - 1]

\* A list that keeps its repeated ranks.
KeepRepeated(a) == a

RECURSIVE uniq_fast(_)
uniq_fast(a) ==
  IF a = <<>> THEN <<>>
  ELSE LET front == uniq_fast(SubSeq(a, 1, Len(a) - 1))
       IN IF a[Len(a)] \in Range(front) THEN front ELSE Append(front, a[Len(a)])

\* Array.prototype.sort() without a comparator orders numbers as strings;
\* the key of a number below 100 in that order.
LexKey(n) == IF n < 10 THEN 11 * n ELSE 11 * (n \div 10) + (n % 10) + 1

\* The filter that drops the ranks of ignored terms.
NotIgnored(word, ignored) == word \notin ignored

\* A filter that lets the query terms through.
AnyIndex(idx, q_idx_set) == TRUE

\* The filter that drops the ranks of the query terms.
NotQueryTerm(idx, q_idx_set) == idx \notin q_idx_set

\* ranks_to_show; reading item_scores[rank] for a rank that does not exist
\* throws (TypeError).
RanksToShow(watched, ignored, vocab, index2word, item_scores, q_idx_set) ==
  LET pushed == TopRanksSeq \o WatchedRanks(watched, vocab, item_scores, q_idx_set)
      uniq == uniq_fast(pushed)
  IN IF \E i \in 1..Len(uniq) : uniq[i] >= Len(item_scores)
     THEN [threw |-> TRUE, ranks |-> <<>>]
     ELSE LET kept == SelectSeq(uniq, LAMBDA rank :
                        /\ NotIgnored(index2word[item_scores[rank + 1] + 1], ignored)
                        /\ NotQueryTerm(item_scores[rank + 1], q_idx_set))
          IN [threw |-> FALSE,
              ranks |-> SortByKey(kept, [r \in Range(kept) |-> LexKey(r)])]

\* A history that takes a new entry for every update.
UpdateHistoryAppend(history, rank, iterations) ==
  Append(history, [rank |-> rank, iteration |-> iterations])

\* The rank-history update of one record.
UpdateHistory(history, rank, iterations) ==
  IF Len(history) >= 1 /\ history[Len(history)].iteration = iterations
  THEN [history EXCEPT ![Len(history)].rank = rank]
  ELSE Append(history, [rank |-> rank, iteration |-> iterations])

\* A record that compute_query_result creates.
NewRecord(word) == [query |-> word, status |-> "NORMAL", rank |-> -1, rank_history |-> <<>>]

\* The loop over ranks_to_show: qo_lookup after it.
RECURSIVE UpdateRecords(_, _, _, _, _)
UpdateRecords(qo_lookup, ranks, item_scores, index2word, iterations) ==
  IF ranks = <<>> THEN qo_lookup
  ELSE LET rank == Head(ranks)
           word == index2word[item_scores[rank + 1] + 1]
           found == IF word \in DOMAIN qo_lookup THEN qo_lookup
                    ELSE qo_lookup @@ (word :> NewRecord(word))
           record == [found[word] EXCEPT
                        !.rank = rank,
                        !.rank_history = UpdateHistory(@, rank, iterations)]
       IN UpdateRecords([found EXCEPT ![word] = record], Tail(ranks), item_scores,
                        index2word, iterations)

\* query_out_records.sort((a, b) => a.rank - b.rank) of the records pushed in
\* the order of ranks_to_show.
SortRecords(ranks, item_scores, index2word, qo_lookup) ==
  LET sorted == SortByKey(ranks, [r \in Range(ranks) |-> r])
  IN [i \in 1..Len(sorted) |-> qo_lookup[index2word[item_scores[sorted[i] + 1] + 1]]]

\* A ranker that sums the query vector up in the row of its first term.
AccumulateInRow(syn0v, qin, vocabv) ==
  [syn0v EXCEPT ![vocabv[TermWord(qin[1])].idx] = ComposeQuery(qin, vocabv, syn0v)]

\* syn0 after the loops that build qi_vec and the scores: they read
\* syn0[qidx][j] and syn0[i][j], and write qi_vec, prod and l2 (qi_vec is an
\* array of its own, made by init_model).
ReadRows(syn0v, qin, vocabv) == syn0v

\* compute_query_result on m = [query_in, vocab, vocab_size, index2word, syn0,
\* instances, qo_map, queries_watched, queries_ignored, qi_vec, scores,
\* query_out_records]: the fields it leaves, and whether it threw.
compute_query_result(m) ==
  IF Len(m.query_in) = 0
  THEN [qi_vec |-> m.qi_vec, scores |-> m.scores, qo_map |-> m.qo_map,
        query_out_records |-> <<>>, syn0 |-> m.syn0, threw |-> FALSE]
  ELSE LET q_idx_set == QueryIndices(m.query_in, m.vocab)
           qi == Normalize(ComposeQuery(m.query_in, m.vocab, m.syn0))
           sc == [i \in 0..(m.vocab_size - 1) |-> Score(i, q_idx_set, qi, m.syn0)]
           item_scores == ItemScores(sc, m.vocab_size)
           shown == RanksToShow(m.queries_watched, m.queries_ignored, m.vocab,
                                m.index2word, item_scores, q_idx_set)
       IN IF shown.threw
          THEN [qi_vec |-> qi, scores |-> sc, qo_map |-> m.qo_map,
                query_out_records |-> m.query_out_records,
                syn0 |-> ReadRows(m.syn0, m.query_in, m.vocab), threw |-> TRUE]
          ELSE LET qo_lookup == UpdateRecords(m.qo_map[m.query_in], shown.ranks,
                                              item_scores, m.index2word, m.instances)
               IN [qi_vec |-> qi, scores |-> sc,
                   qo_map |-> [m.qo_map EXCEPT ![m.query_in] = qo_lookup],
                   query_out_records |-> SortRecords(shown.ranks, item_scores,
                                                     m.index2word, qo_lookup),
                   syn0 |-> ReadRows(m.syn0, m.query_in, m.vocab), threw |-> FALSE]

\* -------------------------------------------------- update_qi_and_qo
\* The status a prefix stands for.
PrefixStatus(prefix) ==
  IF prefix = "G" THEN "GOOD" ELSE IF prefix = "B" THEN "BAD" ELSE "WATCHED"

\* The test that lets an 'I' item move a term to the ignored set.
CanIgnore(q_str, watched) == q_str \in watched

\* The loop over query_out on u = [qo_lookup, has_lookup, queries_watched,
\* queries_ignored, threw]; "q_str in qo_lookup" throws (TypeError) when
\* qo_lookup is undefined, which it is for an empty query_in.
RECURSIVE UpdateWatched(_, _)
UpdateWatched(query_out, u) ==
  IF query_out = <<>> \/ u.threw THEN u
  ELSE LET q == Head(query_out)
       IN IF q.prefix \in {"G", "B", "W"}
          THEN LET w1 == u.queries_watched \cup {q.word}
               IN IF ~u.has_lookup
                  THEN [u EXCEPT !.queries_watched = w1, !.threw = TRUE]
                  ELSE LET found == IF q.word \in DOMAIN u.qo_lookup THEN u.qo_lookup
                                    ELSE u.qo_lookup @@
                                           (q.word :> [query |-> q.word, status |-> "",
                                                       rank |-> -1, rank_history |-> <<>>])
                       IN UpdateWatched(Tail(query_out),
                            [u EXCEPT !.queries_watched = w1,
                                      !.qo_lookup = [found EXCEPT ![q.word].status =
                                                        PrefixStatus(q.prefix)],
                                      !.queries_ignored = @ \ {q.word}])
          ELSE IF q.prefix = "I" /\ CanIgnore(q.word, u.queries_watched)
          THEN UpdateWatched(Tail(query_out),
                 [u EXCEPT !.queries_watched = @ \ {q.word},
                           !.queries_ignored = @ \cup {q.word}])
          ELSE UpdateWatched(Tail(query_out), u)

\* update_qi_and_qo: qi_key is query_in itself (join('&') of the terms).
update_qi_and_qo(qin, query_out, qo_mapv, watched, ignored) ==
  LET map1 == IF Len(qin) > 0 /\ qin \notin DOMAIN qo_mapv
              THEN qo_mapv @@ (qin :> <<>>) ELSE qo_mapv
      has == qin \in DOMAIN map1
      u == UpdateWatched(query_out,
             [qo_lookup |-> IF has THEN map1[qin] ELSE <<>>, has_lookup |-> has,
              queries_watched |-> watched, queries_ignored |-> ignored,
              threw |-> FALSE])
  IN [qo_map |-> IF has THEN [map1 EXCEPT ![qin] = u.qo_lookup] ELSE map1,
      queries_watched |-> u.queries_watched,
      queries_ignored |-> u.queries_ignored,
      threw |-> u.threw]

\* ------------------------------------------------------------- state
VARIABLES
  config,                  \* this.state.config: [min_count, sg, cbow_mean, window, negative, seed]
  status,                  \* this.state.status
  corpus,                  \* this.corpus (<<>> before set_corpus)
  sentences, vocab, index2word, cum_table,
  num_sentences, vocab_size, corpus_size,
  syn0, syn1,              \* row i is syn0[i], 0 <= i < vocab_size
  scores, qi_vec,          \* the cached arrays
  instances, sentence_index, epochs,   \* state.instances, state.sentences, state.epochs
  learning_rate,           \* state.learning_rate, the fraction num / den
  count_instances_watched,
  breakpoint_instances_watched, breakpoint_iterations, breakpoint_time,
  query_in, queries_watched, queries_ignored, qo_map, query_out_records,
  last_query_out,          \* request['query_out'] of the last update_query_out_result
  request,                 \* the type of the request handled last
  requests,                \* the requests handled since the first init_model
  inits,                   \* the init_model requests handled
  outcome,                 \* "pending" while it runs, then "returned" or "threw"
  pos,                     \* words trained of the current sentence (forEach's index)
  search                   \* a call of bSearch on its own: [xs, x, result]

vocab_vars == <<sentences, vocab, index2word, cum_table, num_sentences, vocab_size, corpus_size>>

cursor_vars == <<instances, sentence_index, epochs, count_instances_watched>>

breakpoint_vars == <<breakpoint_instances_watched, breakpoint_iterations, breakpoint_time>>

query_vars == <<query_in, queries_watched, queries_ignored, qo_map, query_out_records,
               last_query_out>>

vars == <<config, status, corpus, vocab_vars, syn0, syn1, scores, qi_vec, cursor_vars,
          learning_rate, breakpoint_vars, query_vars, request, requests, inits, outcome,
          pos, search>>

\* ------------------------------------------------------------ inputs
\* report_interval_microseconds; times are counted from the start of the
\* request, so Date.now() + report_interval_microseconds is this number.
report_interval_microseconds == 250

RECURSIVE SeqsUpTo(_, _)
SeqsUpTo(S, n) ==
  IF n = 0 THEN {<<>>}
  ELSE LET shorter == SeqsUpTo(S, n - 1)
       IN shorter \cup {Append(q, x) : q \in shorter, x \in S}

SmallSentences == SeqsUpTo((1..MaxSmallWords) \cup {ProtoWord}, MaxSentLen) \ {<<>>}

SmallCorpora == SeqsUpTo(SmallSentences, MaxSentences) \ {<<>>}

\* A corpus of BigWords distinct words in one-word sentences: every word
\* once, every word but the last once more, then words 2..7 a third time.
\* Its vocabulary is 2..7, 1, then the other words, the last one the rarest.
BigCorpus ==
  [i \in 1..(2 * BigWords + 5) |->
     IF i <= BigWords THEN <<i>>
     ELSE IF i <= 2 * BigWords - 1 THEN <<i - BigWords>>
     ELSE <<i - 2 * BigWords + 2>>]

\* A corpus whose one sentence is longer than its vocabulary.
LongCorpus == << <<1, 1, 1>> >>

\* A corpus of two sentences that loses a word when min_count is 2.
TwoCorpus == << <<1, 2>>, <<2>> >>

\* The corpora of a session.
Corpora == {BigCorpus, LongCorpus, TwoCorpus}

\* The default alpha (0.1) and min_alpha (0.01), in thousandths.
DefaultAlpha == 100

DefaultMinAlpha == 10

\* cbow_mean is read in CBOW mode only; with sg it keeps its default.
Configs ==
  {c \in [min_count : 1..MaxMinCount, sg : BOOLEAN, cbow_mean : {TRUE},
          window : 1..MaxWindow, negative : 1..MaxNegative, seed : 1..MaxSeed,
          alpha : {DefaultAlpha}, min_alpha : {DefaultMinAlpha}, iter : 1..MaxIter] :
     c.sg => c.cbow_mean}

\* The query-in lists and query-out items a caller sends.
QueryWords == {1}

QueryIns == {<<>>, <<2>>, <<2, -1>>, <<2, -2>>}

QueryOutItems == [prefix : {"W", "I"}, word : QueryWords]

QueryOuts == SeqsUpTo(QueryOutItems, 1)

\* request['status']: the caller pauses the model before it asks.
FrontendStatuses == {"USER_BREAK"}

\* The caller validates query_in first (validate_query_in).
ValidQueryIn(qin) == \A i \in 1..Len(qin) : TermWord(qin[i]) \in DOMAIN vocab

\* -------------------------------------------------------------- Init
\* The state the constructor leaves.
\* The state after "new Word2vec(config)".
Constructed ==
  /\ config \in Configs
  /\ status = "WAIT_FOR_CORPUS"
  /\ corpus = <<>>
  /\ sentences = <<>> /\ vocab = <<>> /\ index2word = <<>> /\ cum_table = <<>>
  /\ num_sentences = 0 /\ vocab_size = 0 /\ corpus_size = 0
  /\ syn0 = <<>> /\ syn1 = <<>> /\ scores = <<>> /\ qi_vec = Num(0)
  /\ instances = 0 /\ sentence_index = 0 /\ epochs = 0
  /\ count_instances_watched = 0
  /\ learning_rate = NoRate
  /\ breakpoint_instances_watched = -1
  /\ breakpoint_iterations = -1
  /\ breakpoint_time = -1
  /\ query_in = <<>> /\ queries_watched = {} /\ queries_ignored = {}
  /\ qo_map = <<>> /\ query_out_records = <<>> /\ last_query_out = <<>>
  /\ request = "none" /\ requests = 0 /\ inits = 0 /\ outcome = "returned"
  /\ pos = 0

\* No call of bSearch on its own: result -1 stands for "not called".
NoSearch == [xs |-> <<>>, x |-> [int |-> 0, frac |-> FALSE], result |-> -1]

Init == Constructed /\ search = NoSearch

Idle == outcome # "pending"

\* ----------------------------------------------------------- actions
\* handle_request('set_corpus') with a corpus of the set `from`.
SetCorpusFrom(from) ==
  /\ Idle /\ status = "WAIT_FOR_CORPUS"
  /\ \E c \in from : corpus' = c
  /\ status' = "WAIT_FOR_INIT"
  /\ request' = "set_corpus" /\ outcome' = "returned"
  /\ UNCHANGED search
  /\ UNCHANGED <<config, vocab_vars, syn0, syn1, scores, qi_vec, cursor_vars, learning_rate,
                 breakpoint_vars, query_vars, requests, inits, pos>>

SetCorpus == SetCorpusFrom(Corpora)

\* handle_request('init_model'): build_vocab, then init_model.  The request
\* is served whenever a corpus is there, also on a model that was trained.
InitModel ==
  /\ Idle /\ status # "WAIT_FOR_CORPUS"
  /\ inits = 0 \/ requests < MaxRequests
  /\ \E b \in {BuildVocab(corpus, config.min_count)} :
        /\ sentences' = b.sentences
        /\ vocab' = b.vocab
        /\ index2word' = b.index2word
        /\ cum_table' = b.cum_table
        /\ num_sentences' = b.num_sentences
        /\ vocab_size' = b.vocab_size
        /\ corpus_size' = b.corpus_size
        /\ syn0' = InitSyn0(config.seed, b.vocab_size)
        /\ syn1' = InitSyn1(config.seed, b.vocab_size)
        /\ scores' = [i \in 0..(b.vocab_size - 1) |-> Num(0)]
  /\ qi_vec' = Num(0)
  /\ instances' = 0 /\ epochs' = 0 /\ sentence_index' = 0
  /\ status' = "WAIT_FOR_TRAIN"
  /\ request' = "init_model" /\ outcome' = "returned"
  /\ requests' = IF inits = 0 THEN 0 ELSE requests + 1
  /\ inits' = inits + 1
  /\ UNCHANGED search
  /\ UNCHANGED <<config, corpus, count_instances_watched, learning_rate, breakpoint_vars,
                 query_vars, pos>>

Ready ==
  /\ Idle /\ status \notin {"WAIT_FOR_CORPUS", "WAIT_FOR_INIT"}
  /\ requests < MaxRequests

\* The argument of compute_query_result from the values it reads.
RankerInput(qin, syn0v, inst, map, watched, ignored) ==
  [query_in |-> qin, vocab |-> vocab, vocab_size |-> vocab_size,
   index2word |-> index2word, syn0 |-> syn0v, instances |-> inst, qo_map |-> map,
   queries_watched |-> watched, queries_ignored |-> ignored,
   qi_vec |-> qi_vec, scores |-> scores, query_out_records |-> query_out_records]

\* handle_request('update_query_out_result'): update_qi_and_qo, then
\* compute_query_result.
UpdateQueryOutResult ==
  /\ Ready
  /\ \E qin \in QueryIns, query_out \in QueryOuts, st \in FrontendStatuses :
       /\ ValidQueryIn(qin)
       /\ status' = st
       /\ query_in' = qin
       /\ last_query_out' = query_out
       /\ \E u \in {update_qi_and_qo(qin, query_out, qo_map, queries_watched,
                                     queries_ignored)} :
             /\ queries_watched' = u.queries_watched
             /\ queries_ignored' = u.queries_ignored
             /\ IF u.threw
                THEN /\ qo_map' = u.qo_map
                     /\ UNCHANGED <<qi_vec, scores, query_out_records, syn0>>
                     /\ outcome' = "threw"
                ELSE \E r \in {compute_query_result(
                                  RankerInput(qin, syn0, instances, u.qo_map,
                                              u.queries_watched, u.queries_ignored))} :
                        /\ qo_map' = r.qo_map
                        /\ qi_vec' = r.qi_vec
                        /\ scores' = r.scores
                        /\ query_out_records' = r.query_out_records
                        /\ syn0' = r.syn0
                        /\ outcome' = IF r.threw THEN "threw" ELSE "returned"
  /\ request' = "update_query_out_result" /\ requests' = requests + 1
  /\ UNCHANGED inits
  /\ UNCHANGED search
  /\ UNCHANGED <<config, corpus, vocab_vars, syn1, cursor_vars, learning_rate,
                 breakpoint_vars, pos>>

\* The sentences trained since init_model.
Trained(idx, ep) == ep * num_sentences + idx

\* The bound on the training of a session whose clock passes every deadline
\* within `horizon` sentences.
CanTrainWithin(horizon) ==
  instances < MaxInstances /\ Trained(sentence_index, epochs) < horizon

CanTrain == CanTrainWithin(MaxTrained)

\* A target that forgets the instances trained before the request.
IterationTargetFromZero(inst, requested_iterations) == requested_iterations

\* "this.state.instances + requested_iterations"
IterationTarget(inst, requested_iterations) == inst + requested_iterations

\* "this.count_instances_watched + requested_iterations"
WatchedTarget(watched_count, requested_iterations) == watched_count + requested_iterations

\* A request that leaves the time breakpoint unarmed.
NoDeadline(now) == -1

\* "Date.now() + this.state.config.report_interval_microseconds"
Deadline(now) == now + report_interval_microseconds

\* handle_request('train') up to the loop of train_until_breakpoint and into
\* its first train_sentence, which sets the learning rate.
TrainWithin(horizon) ==
  /\ Ready /\ CanTrainWithin(horizon)
  /\ learning_rate' = LearningRate(instances, corpus_size, config)
  /\ \E iterations \in 0..MaxIterations, watched \in BOOLEAN :
       LET requested_iterations == IF iterations = 0 THEN -1 ELSE iterations
       IN /\ breakpoint_time' = Deadline(0)
          /\ breakpoint_iterations' =
               IF requested_iterations > 0 /\ ~watched
               THEN IterationTarget(instances, requested_iterations) ELSE -1
          /\ breakpoint_instances_watched' =
               IF requested_iterations > 0 /\ watched
               THEN WatchedTarget(count_instances_watched, requested_iterations) ELSE -1
  /\ request' = "train" /\ requests' = requests + 1
  /\ outcome' = "pending" /\ pos' = 0
  /\ UNCHANGED inits
  /\ UNCHANGED search
  /\ UNCHANGED <<config, status, corpus, vocab_vars, syn0, syn1, scores, qi_vec,
                 cursor_vars, query_vars>>

Train == TrainWithin(MaxTrained)

\* handle_request('train-continue'), likewise.
TrainContinueWithin(horizon) ==
  /\ Ready /\ CanTrainWithin(horizon)
  /\ learning_rate' = LearningRate(instances, corpus_size, config)
  /\ breakpoint_time' = Deadline(0)
  /\ request' = "train-continue" /\ requests' = requests + 1
  /\ outcome' = "pending" /\ pos' = 0
  /\ UNCHANGED inits
  /\ UNCHANGED search
  /\ UNCHANGED <<config, status, corpus, vocab_vars, syn0, syn1, scores, qi_vec,
                 cursor_vars, breakpoint_instances_watched, breakpoint_iterations,
                 query_vars>>

TrainContinue == TrainContinueWithin(MaxTrained)

\* The words of the sentence being trained.
CurrentWords == FilterWords(sentences[sentence_index + 1], vocab)

\* A loop over the words that stops after the first one.
SentenceDoneEarly(p, words) == p >= Min(1, Len(words))

\* Whether words.forEach has passed the last word.
SentenceDone(p, words) == p >= Len(words)

\* train_sentence, one turn of words.forEach: the word at pos.
TrainWord ==
  /\ outcome = "pending"
  /\ ~SentenceDone(pos, CurrentWords)
  /\ \E e \in TrainWordOutcomes(syn0, syn1, CurrentWords, vocab, pos, config,
                                DrawTargets(cum_table, vocab_size)) :
       /\ syn0' = e.syn0
       /\ syn1' = e.syn1
       /\ IF e.crashed
          THEN /\ outcome' = "threw" /\ pos' = 0
               /\ UNCHANGED <<instances, count_instances_watched>>
          ELSE /\ instances' = instances + 1
               /\ count_instances_watched' =
                    IF CurrentWords[pos + 1] \in queries_watched
                    THEN count_instances_watched + 1 ELSE count_instances_watched
               /\ pos' = pos + 1
               /\ UNCHANGED outcome
  /\ UNCHANGED search
  /\ UNCHANGED <<config, status, corpus, vocab_vars, scores, qi_vec, sentence_index, learning_rate,
                 epochs, breakpoint_vars, query_vars, request, requests, inits>>

\* "this.state.sentences ++" and the wrap to the next epoch.
NextSentence(idx, num) == IF idx + 1 >= num THEN 0 ELSE idx + 1

\* A wrap that leaves the epoch count alone.
NextEpochStays(idx, num, ep) == ep

NextEpoch(idx, num, ep) == IF idx + 1 >= num THEN ep + 1 ELSE ep

\* The breakpoint that ends the loop of train_until_breakpoint, if any;
\* now is Date.now().
BreakStatus(now, inst, watched_count) ==
  IF breakpoint_time > 0 /\ now >= breakpoint_time THEN "AUTO_BREAK"
  ELSE IF breakpoint_iterations > 0 /\ inst >= breakpoint_iterations THEN "USER_BREAK"
  ELSE IF breakpoint_instances_watched > 0 /\ watched_count >= breakpoint_instances_watched
  THEN "USER_BREAK"
  ELSE "none"

\* Date.now() when the breakpoints are looked at: before the deadline or at it.
ClockWithin(horizon, idx, ep) ==
  IF Trained(idx, ep) >= horizon THEN {report_interval_microseconds}
  ELSE {0, report_interval_microseconds}

Clock(idx, ep) == ClockWithin(MaxTrained, idx, ep)

\* (No sentence is trained beyond the horizon MaxTrained: the clock has
\* passed every deadline by then.)
\* The end of train_sentence and the rest of the loop body of
\* train_until_breakpoint; when a breakpoint fires, compute_query_result and
\* the return of handle_request.
SentenceEndWithin(horizon) ==
  /\ outcome = "pending"
  /\ SentenceDone(pos, CurrentWords)
  /\ Trained(sentence_index, epochs) < horizon
  /\ sentence_index' = NextSentence(sentence_index, num_sentences)
  /\ epochs' = NextEpoch(sentence_index, num_sentences, epochs)
  /\ pos' = 0
  /\ \E now \in ClockWithin(horizon, sentence_index', epochs') :
       LET brk == BreakStatus(now, instances, count_instances_watched)
       IN IF brk = "none"
          THEN /\ learning_rate' = LearningRate(instances, corpus_size, config)
               /\ UNCHANGED <<status, outcome, scores, qi_vec, query_vars, syn0>>
          ELSE \E r \in {compute_query_result(
                            RankerInput(query_in, syn0, instances, qo_map,
                                        queries_watched, queries_ignored))} :
                  /\ status' = brk
                  /\ qo_map' = r.qo_map
                  /\ qi_vec' = r.qi_vec
                  /\ scores' = r.scores
                  /\ query_out_records' = r.query_out_records
                  /\ syn0' = r.syn0
                  /\ outcome' = IF r.threw THEN "threw" ELSE "returned"
                  /\ UNCHANGED <<query_in, queries_watched, queries_ignored,
                                 last_query_out, learning_rate>>
  /\ UNCHANGED search
  /\ UNCHANGED <<config, corpus, vocab_vars, syn1, instances,
                 count_instances_watched, breakpoint_vars, request, requests, inits>>

SentenceEnd == SentenceEndWithin(MaxTrained)

Next ==
  \/ SetCorpus
  \/ InitModel
  \/ UpdateQueryOutResult
  \/ Train
  \/ TrainContinue
  \/ TrainWord
  \/ SentenceEnd

Spec == Init /\ [][Next]_vars

\* The vocabulary of every small corpus: set_corpus and init_model only.
SetSmallCorpus == SetCorpusFrom(SmallCorpora \cup Corpora)

NextVocab ==
  \/ SetSmallCorpus
  \/ InitModel

SpecVocab == Init /\ [][NextVocab]_vars

\* A corpus whose one word is rare when min_count is 2: its vocabulary is
\* then the null word alone.
RareCorpus == << <<1>> >>

\* Training sessions without query requests, so that no word is ever
\* watched, under the scheduling of the program: a request that runs goes on
\* running (the loop of train_until_breakpoint is synchronous).
LiveCorpora == {RareCorpus, TwoCorpus, LongCorpus}

SetLiveCorpus == SetCorpusFrom(LiveCorpora)

NextLive ==
  \/ SetLiveCorpus
  \/ InitModel
  \/ Train
  \/ TrainContinue
  \/ TrainWord
  \/ SentenceEnd

SpecLive == Init /\ [][NextLive]_vars /\ WF_vars(TrainWord) /\ WF_vars(SentenceEnd)

\* The empty corpus: ''.split('\n') is one sentence, and its split(' ') is one
\* word, the empty string.
EmptyCorpus == << <<EmptyWord>> >>

\* Training sessions that run one sentence longer before the clock has passed
\* every deadline, on corpora of one sentence, without query requests.
RateHorizon == MaxTrained + 1

RateCorpora == {RareCorpus, LongCorpus, EmptyCorpus}

SetRateCorpus == SetCorpusFrom(RateCorpora)

TrainLonger == TrainWithin(RateHorizon)

TrainContinueLonger == TrainContinueWithin(RateHorizon)

SentenceEndLonger == SentenceEndWithin(RateHorizon)

NextRate ==
  \/ SetRateCorpus
  \/ InitModel
  \/ TrainLonger
  \/ TrainContinueLonger
  \/ TrainWord
  \/ SentenceEndLonger

SpecRate == Init /\ [][NextRate]_vars

\* bSearch on its own: every non-decreasing array of at most MaxSearchLen
\* numbers of 0..MaxSearchValue, and every key from 0 to just above them.
NonDecreasing(a) == \A i \in 1..(Len(a) - 1) : a[i] <= a[i + 1]

SearchArrays == {a \in SeqsUpTo(0..MaxSearchValue, MaxSearchLen) : NonDecreasing(a)}

SearchKeys == [int : 0..(MaxSearchValue + 1), frac : BOOLEAN]

SearchCalls == [xs : SearchArrays, x : SearchKeys, result : {-1}]

InitSearch == Constructed /\ search \in SearchCalls

\* The call "bSearch(xs, x)".
CallSearch ==
  /\ search.result = -1
  /\ search' = [search EXCEPT !.result = bSearch(search.xs, search.x)]
  /\ UNCHANGED <<config, status, corpus, vocab_vars, syn0, syn1, scores, qi_vec,
                 cursor_vars, learning_rate, breakpoint_vars, query_vars, request,
                 requests, inits, outcome, pos>>

NextSearch == CallSearch

SpecSearch == InitSearch /\ [][NextSearch]_vars

\* ------------------------------------------------------------ claims
\* The words of the sentence trained last, the one before the cursor.
LastWords ==
  FilterWords(sentences[IF sentence_index = 0 THEN num_sentences ELSE sentence_index],
              vocab)

\* A 'train' request with an instance target (iterations > 0, watched false)
\* has returned.
TrainReturned == request = "train" /\ outcome = "returned" /\ breakpoint_iterations > 0

\* C1, as stated: a 'train' request with iterations = N and watched = false
\* returns with the instance count exactly at its target, the count at the
\* start of the request plus N.
C1_ExactTarget == TrainReturned => instances = breakpoint_iterations

\* C1, amended: when such a request ends on its instance target (status
\* USER_BREAK), it ends at the first sentence boundary at or past the target:
\* the count has reached the target, and it had not before the last sentence.
C1_FirstBoundaryPastTarget ==
  (TrainReturned /\ status = "USER_BREAK")
    => /\ instances >= breakpoint_iterations
       /\ instances - Len(LastWords) < breakpoint_iterations

\* C1, witness: the request returned past its target.
C1_Overshoot ==
  TrainReturned /\ status = "USER_BREAK" /\ instances > breakpoint_iterations

\* The number of times word w occurs in corpus c.
Occurrences(c, w) == Cardinality({i \in 1..Len(Flatten(c)) : Flatten(c)[i] = w})

\* The places of word w in index2word.
Places(w) == {i \in 1..Len(index2word) : index2word[i] = w}

\* C2, as stated: after init with min_count = 1, corpus_size is the number of
\* tokens of the corpus (the sentinel not counted) and vocab_size the number
\* of distinct tokens plus 1.
C2_SizesOfCorpus ==
  (inits > 0 /\ config.min_count = 1)
    => /\ corpus_size = Len(Flatten(corpus))
       /\ vocab_size = Cardinality(Range(Flatten(corpus))) + 1

\* C3, as stated: after build_vocab every token with count >= min_count is in
\* the vocabulary exactly once and no rarer token is; the indices are a dense
\* permutation of 0 .. vocab_size - 1; index 0 is the sentinel with count 1;
\* the entries from index 1 on are in non-increasing order of count.
C3_Vocabulary ==
  inits > 0
    => /\ \A w \in Range(Flatten(corpus)) :
            IF Occurrences(corpus, w) >= config.min_count
            THEN Cardinality(Places(w)) = 1 /\ w \in DOMAIN vocab
            ELSE Places(w) = {} /\ w \notin DOMAIN vocab
       /\ Len(index2word) = vocab_size
       /\ DOMAIN vocab = Range(index2word)
       /\ \A i \in 1..vocab_size : vocab[index2word[i]].idx = i - 1
       /\ index2word[1] = NullWord /\ vocab[NullWord].count = 1
       /\ \A i, j \in 2..vocab_size :
            i < j => vocab[index2word[i]].count >= vocab[index2word[j]].count

\* The iterations of a rank history are strictly increasing.
StrictlyIncreasing(history) ==
  \A i \in 1..(Len(history) - 1) : history[i].iteration < history[i + 1].iteration

\* The rank history kept for word w under query-in key k (none: empty).
HistoryOf(map, k, w) ==
  IF k \in DOMAIN map /\ w \in DOMAIN map[k] THEN map[k][w].rank_history ELSE <<>>

\* The step ends a request with a ranking for a non-empty query-in: an
\* update_query_out_result that returns, or the return of a training burst.
RankingStep ==
  /\ outcome' = "returned" /\ query_in' # <<>>
  /\ \/ requests' = requests + 1 /\ request' = "update_query_out_result"
     \/ outcome = "pending"

\* In a session of one init_model, every rank history has strictly
\* increasing iterations.
C4_Increasing ==
  inits <= 1 => \A k \in DOMAIN qo_map : \A w \in DOMAIN qo_map[k] :
                  StrictlyIncreasing(qo_map[k][w].rank_history)

\* A ranking gives every record it emits one rank update: at the instance
\* count of the last entry it overwrites that entry's rank, at another count
\* it appends one entry.  No other history changes, in this step or another.
C4_Update ==
  \A k \in DOMAIN qo_map' : \A w \in DOMAIN qo_map'[k] :
    LET old == HistoryOf(qo_map, k, w)
        new == qo_map'[k][w].rank_history
        emitted == {i \in 1..Len(query_out_records') : query_out_records'[i].query = w}
    IN IF RankingStep /\ k = query_in' /\ emitted # {}
       THEN /\ Cardinality(emitted) = 1
            /\ \A i \in emitted :
                 /\ query_out_records'[i] = qo_map'[k][w]
                 /\ IF Len(old) >= 1 /\ old[Len(old)].iteration = instances'
                    THEN new = [old EXCEPT ![Len(old)].rank = query_out_records'[i].rank]
                    ELSE new = Append(old, [rank |-> query_out_records'[i].rank,
                                            iteration |-> instances'])
       ELSE new = old

Training == outcome = "pending"

\* Every word of the current sentence has been trained.
AtSentenceEnd == pos = Len(CurrentWords)

\* A training request returns only when a sentence has just been completed
\* and the cursor moves past it; the status changes during a request (a
\* breakpoint has fired) only then; and every word trained is counted.
C5_Step ==
  /\ (Training /\ outcome' = "returned")
       => /\ AtSentenceEnd
          /\ Trained(sentence_index', epochs') = Trained(sentence_index, epochs) + 1
  /\ (Training /\ status' # status) => AtSentenceEnd /\ outcome' # "pending"
  /\ (Training /\ pos' = pos + 1) => instances' = instances + 1
  /\ (Training /\ instances' # instances) => pos' = pos + 1 /\ pos < Len(CurrentWords)

\* C5: a 'train' or 'train-continue' request trains whole sentences, at least
\* one: the three breakpoints are looked at only after a sentence has been
\* processed in full, so on return every token of every sentence that was
\* started has been trained and counted.
C5_WholeSentences == [][C5_Step]_vars

\* C5, witness: a request returned after a sentence of several words.
C5_ReturnedAfterLongSentence ==
  /\ request \in {"train", "train-continue"} /\ outcome = "returned"
  /\ Len(LastWords) >= 2 /\ instances >= Len(LastWords)

\* The cursor after a completed sentence: the next sentence, or the first
\* one of the next epoch; no other step but init_model moves it.  The
\* counters do not decrease, and the watched count moves by one, with the
\* instance count, for a word of the watched set.
C6_Step ==
  /\ IF Training /\ AtSentenceEnd
     THEN /\ Trained(sentence_index', epochs') = Trained(sentence_index, epochs) + 1
          /\ IF sentence_index + 1 = num_sentences
             THEN sentence_index' = 0 /\ epochs' = epochs + 1
             ELSE sentence_index' = sentence_index + 1 /\ epochs' = epochs
     ELSE IF inits' # inits
     THEN sentence_index' = 0 /\ epochs' = 0 /\ instances' = 0
     ELSE sentence_index' = sentence_index /\ epochs' = epochs
  /\ inits' = inits => instances' >= instances /\ epochs' >= epochs
  /\ count_instances_watched' >= count_instances_watched
  /\ count_instances_watched' # count_instances_watched
       => /\ Training /\ pos < Len(CurrentWords)
          /\ CurrentWords[pos + 1] \in queries_watched
          /\ count_instances_watched' = count_instances_watched + 1
          /\ instances' = instances + 1

\* The cursor points at a sentence of the corpus.
C6_Range == inits > 0 => 0 <= sentence_index /\ sentence_index < num_sentences

\* C6: since init, 0 <= sentence_index < num_sentences and epochs *
\* num_sentences + sentence_index counts the sentences trained;
\* sentence_index wraps to 0 exactly on reaching num_sentences, with one more
\* epoch; the instance, epoch and watched-instance counts never decrease, and
\* the watched-instance count moves only for tokens of the watched set.
C6_Cursor == []C6_Range /\ [][C6_Step]_vars

\* C6, witness: the cursor has wrapped and a watched token was counted.
C6_WrappedAndWatched ==
  /\ epochs >= 1 /\ sentence_index = 0 /\ outcome = "returned"
  /\ count_instances_watched >= 1 /\ count_instances_watched < instances

\* A request has returned with the ranking for a non-empty query-in.
Ranked ==
  /\ outcome = "returned" /\ query_in # <<>>
  /\ request \in {"update_query_out_result", "train", "train-continue"}

\* The words of the query-in terms.
TermsOf(qin) == {TermWord(qin[i]) : i \in 1..Len(qin)}

\* The ranking of the scores: the vocabulary index at each rank.
RankedItems == ItemScores(scores, vocab_size)

\* The words of the emitted records.
EmittedWords == {query_out_records[i].query : i \in 1..Len(query_out_records)}

\* C7: for a non-empty valid query-in every vocabulary index of a query term
\* has score exactly 0, and no query term is among the emitted
\* query_out_records, also when the term is watched.
C7_QueryTermsExcluded ==
  /\ (inits > 0 /\ query_in # <<>>)
       => \A i \in QueryIndices(query_in, vocab) : scores[i] = Num(0)
  /\ Ranked => EmittedWords \cap TermsOf(query_in) = {}

\* C7, witness: a ranking was emitted while a query term is watched.
C7_WatchedQueryTerm ==
  /\ Ranked /\ query_out_records # <<>>
  /\ TermsOf(query_in) \cap queries_watched # {}

\* Every emitted record carries the rank of its word in the ranking.
RanksReported ==
  \A items \in {RankedItems} : \A i \in 1..Len(query_out_records) :
    query_out_records[i].rank = RankOf(items, vocab[query_out_records[i].query].idx)

\* C8, as stated: the ranks of the vocabulary indices that are not query
\* terms are exactly 0 .. (their number - 1), each used once, and the
\* emitted records report these ranks.
C8_DenseOverOthers ==
  Ranked =>
    /\ \A items \in {RankedItems} :
         LET others == (0..(vocab_size - 1)) \ QueryIndices(query_in, vocab)
         IN {RankOf(items, i) : i \in others} = 0..(Cardinality(others) - 1)
    /\ RanksReported

\* C8, amended: the ranks are the positions of all vocabulary indices, the
\* query terms (at score 0) among them, in descending order of score with
\* ties in index order: a dense permutation of 0 .. vocab_size - 1; the
\* emitted records report these ranks.
C8_DenseOverAll ==
  Ranked =>
    /\ \A items \in {RankedItems} :
         /\ Len(items) = vocab_size
         /\ Range(items) = 0..(vocab_size - 1)
         /\ \A r1, r2 \in 1..vocab_size :
              r1 < r2 =>
                LET k1 == ScoreKey(scores[items[r1]])
                    k2 == ScoreKey(scores[items[r2]])
                IN k1 < k2 \/ (k1 = k2 /\ items[r1] < items[r2])
    /\ RanksReported

\* C8, witness: a query term is ranked between two other indices, and the
\* emitted ranks skip its rank.
C8_QueryTermInTheMiddle ==
  /\ Ranked
  /\ \E items \in {RankedItems} : \E i \in QueryIndices(query_in, vocab) :
       LET r == RankOf(items, i)
       IN /\ r > 0 /\ r + 1 < vocab_size
          /\ \E a, b \in 1..Len(query_out_records) :
               query_out_records[a].rank = r - 1 /\ query_out_records[b].rank = r + 1

\* C9, as stated: a term the caller flags ignored (prefix 'I') is in no
\* emitted record of the ranking that follows, whether or not it was watched
\* before.
C9_FlaggedIgnoredHidden ==
  (Ranked /\ request = "update_query_out_result")
    => \A i \in 1..Len(last_query_out) :
         last_query_out[i].prefix = "I" => last_query_out[i].word \notin EmittedWords

\* C10: the emitted query_out_records of a non-empty query are the words at
\* ranks 0 .. 9 and the watched words of the vocabulary, without the query
\* terms and the ignored words; each once, with its rank, in strictly
\* ascending order of rank.
C10_ResultSet ==
  Ranked =>
    /\ \A items \in {RankedItems} :
         EmittedWords =
           (({index2word[items[r + 1] + 1] : r \in 0..(TopRanks - 1)}
               \cup {w \in queries_watched : w \in DOMAIN vocab})
             \ TermsOf(query_in)) \ queries_ignored
    /\ Len(query_out_records) = Cardinality(EmittedWords)
    /\ RanksReported
    /\ \A i, j \in 1..Len(query_out_records) :
         i < j => query_out_records[i].rank < query_out_records[j].rank

\* C10, witness: a watched word ranked beyond the top ten is emitted after
\* the top ranks.
C10_WatchedBeyondTop ==
  /\ Ranked /\ Len(query_out_records) >= 2
  /\ \E i \in 1..Len(query_out_records) :
       /\ query_out_records[i].rank >= TopRanks
       /\ query_out_records[i].query \in queries_watched

\* The composed query vector of the last ranking has zero norm.
ZeroNorm == ComposeQuery(query_in, vocab, syn0) = 0

\* C11, as stated: when the composed query vector has zero norm, the ranking
\* (on a vocabulary that has the ten top ranks) leaves the query vector at
\* zero and every score at the number 0, none of them NaN.
C11_ZeroNormAllZero ==
  (Ranked /\ vocab_size >= TopRanks /\ ZeroNorm)
    => /\ qi_vec = Num(0)
       /\ \A i \in 0..(vocab_size - 1) : scores[i] = Num(0)

\* The vocabulary index of the word that TrainWord trains next.
CenterIndex == vocab[CurrentWords[pos + 1]].idx

\* The step trains a word to its end (nothing thrown).
WordTrained == outcome = "pending" /\ pos' = pos + 1

\* The row of syn0 that gives the hidden vector l1 for the word at pos of a
\* two-word sentence, when its reduced window holds the other word.
HiddenRow ==
  IF config.sg THEN vocab[CurrentWords[2 - pos]].idx
  ELSE ContextRow(CurrentWords, vocab, 1 - pos)

\* The rows of syn1 that the step changes.
ChangedRows == {i \in DOMAIN syn1 : syn1'[i] # syn1[i]}

\* Every negative draw that the sampler can make on the current table and
\* that is applied for some true target lies in 1 .. vocab_size - 1, inside
\* syn1, and is not that true target.
C12_Draws ==
  inits > 0 =>
    \A targets \in {DrawTargets(cum_table, vocab_size)} :
      \A w_idx \in 1..(vocab_size - 1) : \A t \in targets :
        ~SkipDraw(t, w_idx)
          => t \in 1..(vocab_size - 1) /\ t \in DOMAIN syn1 /\ t # w_idx

\* How many negative draws the step applied to row i of syn1: each applied
\* draw takes the hidden vector off the row once (0 when no such number fits).
NegativeHits(i) ==
  IF \E k \in 1..config.negative : syn1'[i] = syn1[i] - k * syn0[HiddenRow]
  THEN CHOOSE k \in 1..config.negative : syn1'[i] = syn1[i] - k * syn0[HiddenRow]
  ELSE 0

\* A trained word leaves row 0 of syn1 and the shape of syn1 alone; in a
\* sentence of at most two words (at most one update) the true target's row
\* takes the hidden vector exactly once, every other changed row takes minus
\* the hidden vector once per draw that hit it, and at most `negative` draws
\* are applied in all.
C12_Step ==
  WordTrained =>
    /\ DOMAIN syn1' = DOMAIN syn1
    /\ syn1'[0] = syn1[0]
    /\ Len(CurrentWords) = 1 => syn1' = syn1
    /\ Len(CurrentWords) = 2 =>
         \/ syn1' = syn1
         \/ /\ syn1'[CenterIndex] = syn1[CenterIndex] + syn0[HiddenRow]
            /\ \A i \in ChangedRows \ {CenterIndex} : NegativeHits(i) >= 1
            /\ SumOver([i \in ChangedRows \ {CenterIndex} |-> NegativeHits(i)],
                       ChangedRows \ {CenterIndex}) <= config.negative

\* C12: each negative draw that is applied targets an index in
\* 1 .. vocab_size - 1, never the null word's index 0, never an index outside
\* the matrices, never the true target; the true pair is applied exactly once
\* per update.
C12_NegativeDraws == []C12_Draws /\ [][C12_Step]_vars

\* C12, witness: the first word trained since init_model changed two rows of
\* syn1, the true target's and a negative sample's.
C12_NegativeApplied ==
  /\ inits = 1 /\ instances = 1
  /\ Cardinality({i \in DOMAIN syn1 : syn1[i] # InitSyn1(config.seed, vocab_size)[i]}) = 2

\* C13: every 'train' and 'train-continue' request that runs comes to an end,
\* also when its count target can never be reached.
C13_Terminates == (outcome = "pending") ~> (outcome # "pending")

\* C13, witness: a 'train' request with an instance target has returned on
\* the time breakpoint from a corpus without any in-vocabulary token, after
\* a whole epoch that trained nothing.
C13_EndedByTime ==
  /\ request = "train" /\ outcome = "returned" /\ status = "AUTO_BREAK"
  /\ breakpoint_iterations > 0 /\ vocab_size = 1
  /\ instances = 0 /\ epochs >= 1

\* a <= b for two learning rates.
RateLeq(a, b) == a.num * b.den <= b.num * a.den

\* corpus_size * iter, the instance count at which progress reaches 1.
Saturation == corpus_size * config.iter

\* The learning rate is min_alpha.
AtMinAlpha == learning_rate.num = config.min_alpha * learning_rate.den

\* The rate lies in [min_alpha, alpha], and the sentence being trained, when
\* it was begun with instances >= corpus_size * iter, has the rate min_alpha.
C14_Range ==
  learning_rate # NoRate =>
    /\ config.min_alpha * learning_rate.den <= learning_rate.num
    /\ learning_rate.num <= config.alpha * learning_rate.den
    /\ (outcome = "pending" /\ instances - pos >= Saturation) => AtMinAlpha

\* Within a training run (one init_model) the rate never increases, and the
\* start of a sentence sets it from the instance count.
C14_Step ==
  /\ (inits = 1 /\ learning_rate # NoRate) => RateLeq(learning_rate', learning_rate)
  /\ (outcome' = "pending" /\ pos' = 0 /\ pos' # pos + 1)
       => learning_rate' = LearningRate(instances', corpus_size', config')

\* C14: with alpha >= min_alpha the learning rate of successive sentences of
\* a training run never increases and stays within [min_alpha, alpha]; every
\* sentence begun with instances >= corpus_size * iter has exactly min_alpha.
C14_LearningRate == []C14_Range /\ [][C14_Step]_vars

\* C14, witness: a 'train' request that began with instances >=
\* corpus_size * iter has trained to its instance target and returned, at
\* the rate min_alpha.
C14_BurstAfterSaturation ==
  /\ request = "train" /\ outcome = "returned" /\ inits = 1
  /\ breakpoint_iterations - MaxIterations >= Saturation
  /\ instances >= breakpoint_iterations
  /\ AtMinAlpha

\* The embeddings as one value.
Embeddings == [syn0 |-> syn0, syn1 |-> syn1, crashed |-> FALSE]

\* In CBOW mode, an update whose reduced window holds no context word ends
\* without a throw and leaves the embeddings as they are, for the word that
\* is trained next.
C15_EmptyContext ==
  (outcome = "pending" /\ ~config.sg /\ pos < Len(CurrentWords))
    => CbowUpdate(Embeddings, CurrentWords, vocab, pos, <<>>, config.cbow_mean,
                  config.negative, DrawTargets(cum_table, vocab_size))
         = {Embeddings}

\* In CBOW mode the word of a one-word sentence is trained without a change
\* of syn0 or syn1; the instance count advances.
C15_Step ==
  (outcome = "pending" /\ ~config.sg /\ Len(CurrentWords) = 1 /\ pos = 0
     /\ (pos' # pos \/ outcome' # outcome))
    => /\ syn0' = syn0 /\ syn1' = syn1
       /\ outcome' = "pending" /\ pos' = 1
       /\ instances' = instances + 1

\* C15: in CBOW mode, a token whose reduced window holds no context word is
\* trained without a division by zero and without a change to any entry of
\* syn0 or syn1; only the counters advance.
C15_NoContextNoChange == []C15_EmptyContext /\ [][C15_Step]_vars

\* C15, witness: in CBOW mode the word of a one-word sentence has been
\* trained and the embeddings are those of init_model.
C15_TrainedAlone ==
  /\ ~config.sg /\ inits = 1 /\ instances >= 1
  /\ \A i \in 1..num_sentences : Len(sentences[i]) = 1
  /\ syn0 = InitSyn0(config.seed, vocab_size)
  /\ syn1 = InitSyn1(config.seed, vocab_size)

\* C16, as stated: for the empty corpus init_model leaves vocab_size = 1 (the
\* null word alone) for every min_count, and training requests that follow
\* end without a throw and leave the embeddings as init_model made them.
C16_EmptyCorpus ==
  (inits > 0 /\ corpus = EmptyCorpus)
    => /\ vocab_size = 1
       /\ outcome # "threw"
       /\ syn0 = InitSyn0(config.seed, vocab_size)
       /\ syn1 = InitSyn1(config.seed, vocab_size)

\* The step is an update_query_out_result request.
QueryRequest == request' = "update_query_out_result" /\ requests' = requests + 1

\* C17: a query request (update_qi_and_qo, then compute_query_result) leaves
\* syn0, syn1, the vocabulary, the cumulative table and the instance,
\* sentence, epoch and watched-instance counters as they were.
C17_QueryReadsOnly ==
  [][QueryRequest => UNCHANGED <<syn0, syn1, vocab_vars, cursor_vars>>]_vars

\* C17, witness: on a trained model a query request has returned a ranking
\* of a query-in of two terms.
C17_RankedAfterTraining ==
  /\ request = "update_query_out_result" /\ outcome = "returned"
  /\ Len(query_in) = 2 /\ query_out_records # <<>>
  /\ instances >= 1

\* C18: the cumulative table built by build_vocab has vocab_size entries, is
\* non-decreasing in index order, has every entry in 0 .. cum_table_domain,
\* and ends with cum_table_domain.
C18_CumTable ==
  inits > 0 =>
    /\ Len(cum_table) = vocab_size
    /\ \A i \in 1..(vocab_size - 1) : cum_table[i] <= cum_table[i + 1]
    /\ \A i \in 1..vocab_size : 0 <= cum_table[i] /\ cum_table[i] <= cum_table_domain
    /\ cum_table[vocab_size] = cum_table_domain

\* C18, witness: a table of three or more entries that rise strictly, built
\* from words of different counts.
C18_RisingTable ==
  /\ inits > 0 /\ vocab_size >= 3
  /\ \A i \in 1..(vocab_size - 1) : cum_table[i] < cum_table[i + 1]
  /\ vocab[index2word[2]].count > vocab[index2word[vocab_size]].count

\* The vocabulary indices of the words around pos in the widest window
\* (reduced_window = 0); every reduced window lies within it.
ContextIndices ==
  {vocab[CurrentWords[p + 1]].idx :
     p \in Range(ContextPositions(Len(CurrentWords), pos, config.window, 0))}

\* C19, as stated: in CBOW mode the rows of syn0 that an update changes are
\* rows at the vocabulary indices of the context words of the trained word;
\* no other row of syn0 is changed, and the update does not fail for reading
\* a row that is none of these.
C19_Step ==
  (outcome = "pending" /\ ~config.sg /\ ~SentenceDone(pos, CurrentWords)
     /\ (pos' # pos \/ outcome' # outcome))
    => /\ outcome' = "pending"
       /\ \A i \in DOMAIN syn0 : syn0'[i] # syn0[i] => i \in ContextIndices

C19_ContextRows == [][C19_Step]_vars

\* C20, as stated: a surfaced record has status NORMAL only if its term was
\* never marked GOOD, BAD or WATCHED.  A term in queries_watched has been
\* marked (and not ignored since), so its surfaced record carries a mark,
\* also under a query-in key other than the one it was marked under.
C20_MarkKept ==
  Ranked =>
    \A i \in 1..Len(query_out_records) :
      query_out_records[i].query \in queries_watched
        => query_out_records[i].status \in {"GOOD", "BAD", "WATCHED"}

\* Python's bisect_left: the smallest index i with xs[i] >= x, or the length
\* of xs when every element is smaller than x (0-based).
BisectLeft(xs, x) ==
  CHOOSE i \in 0..Len(xs) :
    /\ \A j \in 1..i : Compare(xs[j], x) < 0
    /\ i = Len(xs) \/ Compare(xs[i + 1], x) >= 0

\* The call of bSearch has returned.
Searched == search.result # -1

\* C21, as stated: on every non-decreasing array, also one with repeated
\* values, bSearch returns what bisect_left returns.
C21_BisectLeft ==
  Searched => search.result = BisectLeft(search.xs, search.x)

\* C22, as stated: a ranking request with a valid non-empty query-in
\* completes and emits a result for every vocabulary size, also below the
\* ten top ranks.
C22_RankingCompletes ==
  (request = "update_query_out_result" /\ query_in # <<>>) => outcome = "returned"
====
